---- MODULE Spec2Model ----
(***************************************************************************)
(* Package detector: the detection-and-notification control loop.          *)
(*                                                                         *)
(* Two goroutines can run processImage: the main goroutine (startup cycle, *)
(* then the ticker loop of runCfg.run) and the goroutine of the motion     *)
(* detection library, which invokes the stop-motion callback.  Both share  *)
(* the package-level variables lastNotificationSent and buf.  The library  *)
(* is taken to invoke the callback for one motion event at a time; nothing *)
(* orders it against the main goroutine.                                   *)
(*                                                                         *)
(* The push channel is the one of the version of main.go that has the      *)
(* Firebase messaging client; the email and webhook channels, the          *)
(* threshold and everything else are the same in both versions.            *)
(*                                                                         *)
(* Time is in minutes since Go's zero time.Time, so the zero value of      *)
(* lastNotificationSent is 0.  A classification score is an integer number *)
(* of 1/10000, so that score*100 > threshold reads score > threshold*100.  *)
(***************************************************************************)
EXTENDS Integers, Sequences, FiniteSets, TLC

VARIABLES
    config,                 \* the loaded configuration (never changes)
    now,                    \* the wall clock, time.Now()
    ctxDone,                \* the context has been cancelled
    mainPC,                 \* where func main is
    panicked,               \* a goroutine panicked: the process is gone
    callbackRegistered,     \* AddStopMotionCallback has been called
    tickC,                  \* ticker.C, a channel of capacity 1: 0 or 1 tick
    pc,                     \* per goroutine: where processImage is
    rest,                   \* per goroutine: resp.Payload still to range over
    force,                  \* per goroutine: the forceNotify argument
    err,                    \* per goroutine: processImage's err, as last assigned
    sent,                   \* per goroutine: the channels invoked for the
                            \* result just decided, and how each send ended
    lastNotificationSent,   \* the package-level mute timestamp
    buf,                    \* the package-level image buffer: whose bytes
    tickInFlight,           \* history: the buffered tick arrived during a cycle
    startupRuns,            \* history: number of startup cycles begun
    atCancel,               \* history: goroutines whose cycle was in flight
                            \* when the context was cancelled and still is
    log,                    \* history: decisions of the startup cycle
    pin,                    \* inputs of a pure function under test
    pout                    \* its result

progVars == <<config, now, ctxDone, mainPC, panicked, callbackRegistered, tickC, pc, rest,
              force, err, sent, lastNotificationSent, buf, tickInFlight, startupRuns, atCancel, log>>
pureVars == <<pin, pout>>
vars == <<progVars, pureVars>>

----------------------------------------------------------------------------
(* Bounds *)

MaxResults == 2      \* longest classification result list
MaxAdvances == 3     \* how many times the clock advances
StartTime == 1800    \* the clock at process start: day 1, 06:00

(* The clock advances in steps of half the example mute window. *)
AdvanceStep == 30

Procs == {"main", "motion"}

(* Classification results: a package above the threshold, another label. *)
Pkg == [label |-> "package", score |-> 8000]
Cat == [label |-> "cat", score |-> 9000]
ResultKinds == {Pkg, Cat}

RECURSIVE SeqsUpTo(_)
SeqsUpTo(n) ==
    IF n = 0 THEN {<<>>}
    ELSE LET shorter == SeqsUpTo(n - 1)
         IN  shorter \cup {Append(s, k) : s \in {t \in shorter : Len(t) = n - 1},
                                            k \in ResultKinds}

ResultLists == SeqsUpTo(MaxResults)

(* The configurations explored: the sample file's schedule, label,        *)
(* threshold and mute window, with each optional feature on and off.      *)
BaseConfig ==
    [Interval |-> 30, SleepHour |-> 22, WakeHour |-> 7, NotifyOnStart |-> TRUE,
     NotifyMuteMinutes |-> 60, MotionLogPath |-> TRUE,
     Rect |-> [X1 |-> 0, Y1 |-> 0, X2 |-> 600, Y2 |-> 400],
     PackageLabel |-> "package", Threshold |-> 75,
     EmailServer |-> TRUE, PushKey |-> TRUE, WebHookURL |-> TRUE,
     Fault |-> "none"]

(* What can be wrong with a configuration: no image URL, no vision auth    *)
(* file or URL, an archive path that does not exist, a motion log path     *)
(* without a camera ID, a motion log that cannot be opened.                *)
EarlyFaults == {"imageURL", "visionAuth", "archivePath"}
MotionFaults == {"cameraID", "motionLog"}

Configs ==
    { BaseConfig,
      [BaseConfig EXCEPT !.Interval = 0, !.NotifyOnStart = FALSE, !.PushKey = FALSE,
                         !.Rect = [X1 |-> 0, Y1 |-> 0, X2 |-> 0, Y2 |-> 0]],
      [BaseConfig EXCEPT !.SleepHour = 7, !.WakeHour = 22],
      [BaseConfig EXCEPT !.MotionLogPath = FALSE, !.EmailServer = FALSE],
      [BaseConfig EXCEPT !.MotionLogPath = FALSE, !.WebHookURL = FALSE,
                         !.PushKey = FALSE, !.NotifyOnStart = FALSE],
      [BaseConfig EXCEPT !.Interval = -30, !.MotionLogPath = FALSE] }
    \cup { [BaseConfig EXCEPT !.Fault = f] : f \in EarlyFaults \cup MotionFaults }

----------------------------------------------------------------------------
(* Pure functions of the program *)

Hour(t) == (t \div 60) % 24

isAwakeLeBug(sleepHour, wakeHour, hour) ==
    IF sleepHour > wakeHour /\ (hour <= sleepHour /\ hour >= wakeHour) THEN TRUE
    ELSE IF sleepHour < wakeHour /\ (hour < sleepHour \/ hour >= wakeHour) THEN TRUE
    ELSE IF sleepHour = wakeHour THEN TRUE
    ELSE FALSE

isAwakeWrapAndBug(sleepHour, wakeHour, hour) ==
    IF sleepHour > wakeHour /\ (hour < sleepHour /\ hour >= wakeHour) THEN TRUE
    ELSE IF sleepHour < wakeHour /\ (hour < sleepHour /\ hour >= wakeHour) THEN TRUE
    ELSE IF sleepHour = wakeHour THEN TRUE
    ELSE FALSE

isAwakeNoEqualBranch(sleepHour, wakeHour, hour) ==
    IF sleepHour > wakeHour /\ (hour < sleepHour /\ hour >= wakeHour) THEN TRUE
    ELSE IF sleepHour < wakeHour /\ (hour < sleepHour \/ hour >= wakeHour) THEN TRUE
    ELSE FALSE

isAwakeWakeExclusive(sleepHour, wakeHour, hour) ==
    IF sleepHour > wakeHour /\ (hour < sleepHour /\ hour > wakeHour) THEN TRUE
    ELSE IF sleepHour < wakeHour /\ (hour < sleepHour \/ hour > wakeHour) THEN TRUE
    ELSE IF sleepHour = wakeHour THEN TRUE
    ELSE FALSE

isAwake(sleepHour, wakeHour, hour) ==
    IF sleepHour > wakeHour /\ (hour < sleepHour /\ hour >= wakeHour) THEN TRUE
    ELSE IF sleepHour < wakeHour /\ (hour < sleepHour \/ hour >= wakeHour) THEN TRUE
    ELSE IF sleepHour = wakeHour THEN TRUE
    ELSE FALSE

IsAwakeNow == isAwake(config.SleepHour, config.WakeHour, Hour(now))

IsMatchedGeBug(label, score, packageLabel, threshold) ==
    label = packageLabel /\ score >= threshold * 100

IsMatched(label, score, packageLabel, threshold) ==
    label = packageLabel /\ score > threshold * 100

Matched(r) == IsMatched(r.label, r.score, config.PackageLabel, config.Threshold)

isCropSpecified(rect) ==
    rect.X1 > 0 \/ rect.Y1 > 0 \/ rect.X2 > 0 \/ rect.Y2 > 0

MuteExpiredGeBug(t, last, muteMinutes) == t >= last + muteMinutes

MuteExpired(t, last, muteMinutes) == t > last + muteMinutes

DecisionForcedMuted(matched, expired, forceNotify) ==
    IF matched \/ forceNotify
    THEN IF expired THEN (IF matched THEN "Detected" ELSE "ForcedStartup")
         ELSE "None"
    ELSE "None"

(* The two tests joined into one: a muted match falls through to the       *)
(* forceNotify branch.                                                     *)
DecisionMutedFallsThrough(matched, expired, forceNotify) ==
    IF matched /\ expired THEN "Detected"
    ELSE IF forceNotify THEN "ForcedStartup"
    ELSE "None"

(* What one iteration of the loop over the results decides. *)
Decision(matched, expired, forceNotify) ==
    IF matched
    THEN IF expired THEN "Detected" ELSE "None"
    ELSE IF forceNotify THEN "ForcedStartup"
    ELSE "None"

----------------------------------------------------------------------------
(* Initial state: the configuration file is loaded and parsed, main is     *)
(* about to call the initialize functions.                                 *)

(* buf holds nothing, or the image fetched by a goroutine, cropped or not *)
EmptyBuf == [by |-> "none", cropped |-> FALSE]

NoResult == [done |-> FALSE, value |-> FALSE]

(* No channel has been invoked for the current result. *)
NoSend == [subject |-> "none", email |-> "none", push |-> "none", webhook |-> "none"]

NoLog == [classified |-> FALSE, results |-> <<>>, forced |-> 0, detected |-> 0]

InitProg ==
    /\ config \in Configs
    /\ now = StartTime
    /\ ctxDone = FALSE
    /\ mainPC = "init"
    /\ panicked = FALSE
    /\ callbackRegistered = FALSE
    /\ tickC = 0
    /\ pc = [p \in Procs |-> "idle"]
    /\ rest = [p \in Procs |-> <<>>]
    /\ force = [p \in Procs |-> FALSE]
    /\ err = [p \in Procs |-> "nil"]
    /\ sent = [p \in Procs |-> NoSend]
    /\ lastNotificationSent = 0
    /\ buf = EmptyBuf
    /\ tickInFlight = FALSE
    /\ startupRuns = 0
    /\ atCancel = {}
    /\ log = NoLog

Init ==
    /\ InitProg
    /\ pin = [fn |-> "none"]
    /\ pout = NoResult

Alive == mainPC \notin {"exited", "fatal"} /\ ~panicked

InFlight(p) == pc[p] # "idle"

InStartup(p) == p = "main" /\ mainPC = "startup"

----------------------------------------------------------------------------
(* func main                                                               *)

(* main: config.Image.initialize(), config.Vision.initialize(),            *)
(* config.Email.initialize(), config.WebHook.initialize(): log.Fatalln on  *)
(* a missing archive path, image URL, vision auth file or vision URL.      *)
Initialize ==
    /\ Alive
    /\ mainPC = "init"
    /\ mainPC' = IF config.Fault \in EarlyFaults THEN "fatal" ELSE "boot"
    /\ UNCHANGED <<config, atCancel, sent, err, panicked, now, ctxDone, callbackRegistered,
                   tickC, pc, rest, force, lastNotificationSent, buf, tickInFlight,
                   startupRuns, log, pureVars>>

StartupCycleIfAwake ==
    /\ Alive
    /\ mainPC = "boot"
    /\ IF IsAwakeNow
       THEN /\ mainPC' = "startup"
            /\ pc' = [pc EXCEPT !["main"] = "token"]
            /\ force' = [force EXCEPT !["main"] = config.NotifyOnStart]
            /\ startupRuns' = startupRuns + 1
       ELSE /\ mainPC' = "motionInit"
            /\ UNCHANGED <<pc, force, startupRuns>>
    /\ UNCHANGED <<config, atCancel, sent, err, panicked, now, ctxDone, callbackRegistered, tickC, rest,
                   lastNotificationSent, buf, tickInFlight, log, pureVars>>

(* The callback is registered before the startup cycle. *)
StartupCycleAfterMotionInit ==
    /\ Alive
    /\ mainPC = "boot"
    /\ mainPC' = "startup"
    /\ callbackRegistered' = config.MotionLogPath
    /\ pc' = [pc EXCEPT !["main"] = "token"]
    /\ force' = [force EXCEPT !["main"] = config.NotifyOnStart]
    /\ startupRuns' = startupRuns + 1
    /\ UNCHANGED <<config, atCancel, sent, err, panicked, now, ctxDone, tickC, rest,
                   lastNotificationSent, buf, tickInFlight, log, pureVars>>

(* main: processImage(ctx, config.Run.NotifyOnStart), not gated by isAwake *)
StartupCycle ==
    /\ Alive
    /\ mainPC = "boot"
    /\ mainPC' = "startup"
    /\ pc' = [pc EXCEPT !["main"] = "token"]
    /\ force' = [force EXCEPT !["main"] = config.NotifyOnStart]
    /\ startupRuns' = startupRuns + 1
    /\ UNCHANGED <<config, atCancel, sent, err, panicked, now, ctxDone, callbackRegistered, tickC, rest,
                   lastNotificationSent, buf, tickInFlight, log, pureVars>>

(* main: config.Motion.initialize(ctx), after the startup cycle returned;  *)
(* log.Fatal without a camera ID or when the motion log cannot be opened.  *)
MotionInitialize ==
    /\ Alive
    /\ mainPC = "motionInit"
    /\ IF config.MotionLogPath /\ config.Fault \in MotionFaults
       THEN /\ mainPC' = "fatal"
            /\ UNCHANGED callbackRegistered
       ELSE /\ mainPC' = "runEnter"
            /\ callbackRegistered' = config.MotionLogPath
    /\ UNCHANGED <<config, atCancel, sent, err, panicked, now, ctxDone, tickC, pc, rest, force,
                   lastNotificationSent, buf, tickInFlight, startupRuns, log,
                   pureVars>>

(* main: config.Run.run(ctx) is entered; with Interval > 0 the ticker is   *)
(* created here, with a period of Interval minutes.                        *)
RunEnter ==
    /\ Alive
    /\ mainPC = "runEnter"
    /\ mainPC' = "run"
    /\ UNCHANGED <<config, atCancel, sent, err, panicked, now, ctxDone, callbackRegistered, tickC, pc, rest,
                   force, lastNotificationSent, buf, tickInFlight, startupRuns,
                   log, pureVars>>

TickerArmedNonzero == mainPC = "run" /\ config.Interval # 0

TickerArmed == mainPC = "run" /\ config.Interval > 0

(* run: case <-ticker.C: if r.isAwake() { processImage(ctx, false) } *)
RunTick ==
    /\ Alive
    /\ TickerArmed
    /\ pc["main"] = "idle"
    /\ tickC = 1
    /\ tickC' = 0
    /\ tickInFlight' = FALSE
    /\ IF IsAwakeNow
       THEN /\ pc' = [pc EXCEPT !["main"] = "token"]
            /\ force' = [force EXCEPT !["main"] = FALSE]
       ELSE UNCHANGED <<pc, force>>
    /\ UNCHANGED <<config, atCancel, sent, err, panicked, now, ctxDone, mainPC, callbackRegistered, rest,
                   lastNotificationSent, buf, startupRuns, log, pureVars>>

(* Only the ticker branch of run listens to ctx.Done(). *)
RunDoneTickerOnly ==
    /\ Alive
    /\ config.Interval > 0
    /\ mainPC = "run"
    /\ pc["main"] = "idle"
    /\ ctxDone
    /\ mainPC' = "exited"
    /\ UNCHANGED <<config, atCancel, sent, err, panicked, now, ctxDone, callbackRegistered, tickC, pc, rest,
                   force, lastNotificationSent, buf, tickInFlight, startupRuns,
                   log, pureVars>>

(* run: case <-ctx.Done(): return, in either branch of run; main returns   *)
(* and the process ends, whatever the other goroutines are doing.          *)
RunDone ==
    /\ Alive
    /\ mainPC = "run"
    /\ pc["main"] = "idle"
    /\ ctxDone
    /\ mainPC' = "exited"
    /\ UNCHANGED <<config, atCancel, sent, err, panicked, now, ctxDone, callbackRegistered, tickC, pc, rest,
                   force, lastNotificationSent, buf, tickInFlight, startupRuns,
                   log, pureVars>>

(* The goroutine started in main: on os.Interrupt, cancel(). *)
Cancel ==
    /\ Alive
    /\ ~ctxDone
    /\ ctxDone' = TRUE
    /\ atCancel' = {p \in Procs : InFlight(p)}
    /\ UNCHANGED <<config, sent, err, panicked, now, mainPC, callbackRegistered, tickC, pc, rest,
                   force, lastNotificationSent, buf, tickInFlight, startupRuns,
                   log, pureVars>>

MotionStoppedNoSchedule ==
    /\ Alive
    /\ callbackRegistered
    /\ pc["motion"] = "idle"
    /\ pc' = [pc EXCEPT !["motion"] = "token"]
    /\ force' = [force EXCEPT !["motion"] = FALSE]
    /\ UNCHANGED <<config, atCancel, sent, err, panicked, now, ctxDone, mainPC, callbackRegistered, tickC,
                   rest, lastNotificationSent, buf, tickInFlight, startupRuns,
                   log, pureVars>>

(* The stop-motion callback, invoked on the motion library's goroutine:    *)
(* if config.Run.isAwake() { processImage(ctx, false) }                    *)
MotionStopped ==
    /\ Alive
    /\ callbackRegistered
    /\ pc["motion"] = "idle"
    /\ IF IsAwakeNow
       THEN /\ pc' = [pc EXCEPT !["motion"] = "token"]
            /\ force' = [force EXCEPT !["motion"] = FALSE]
       ELSE UNCHANGED <<pc, force>>
    /\ UNCHANGED <<config, atCancel, sent, err, panicked, now, ctxDone, mainPC, callbackRegistered, tickC,
                   rest, lastNotificationSent, buf, tickInFlight, startupRuns,
                   log, pureVars>>

(* Time passes: AdvanceStep minutes, in which an armed ticker fires.  The   *)
(* runtime sends on ticker.C without blocking: a tick that finds the       *)
(* channel's one slot taken is dropped, otherwise it is buffered until the *)
(* run loop receives it.                                                   *)
Advance ==
    /\ Alive
    /\ now + AdvanceStep <= StartTime + MaxAdvances * AdvanceStep
    /\ now' = now + AdvanceStep
    /\ IF TickerArmed /\ tickC = 0
       THEN /\ tickC' = 1
            /\ tickInFlight' = (\E p \in Procs : InFlight(p))
       ELSE UNCHANGED <<tickC, tickInFlight>>
    /\ UNCHANGED <<config, atCancel, sent, err, panicked, ctxDone, mainPC, callbackRegistered, pc,
                   rest, force, lastNotificationSent, buf, startupRuns, log,
                   pureVars>>

----------------------------------------------------------------------------
(* func processImage, one action per call it makes, run by goroutine p     *)

Goto(p, where) == pc' = [pc EXCEPT ![p] = where]

(* token, err := getGoogleToken(); on error the cycle returns *)
GetGoogleToken(p) ==
    /\ Alive
    /\ pc[p] = "token"
    /\ \E ok \in BOOLEAN :
          /\ err' = [err EXCEPT ![p] = IF ok THEN "nil" ELSE "token"]
          /\ Goto(p, IF ok THEN "fetch" ELSE "ret")
    /\ UNCHANGED <<config, atCancel, sent, panicked, now, ctxDone, mainPC, callbackRegistered, tickC, rest,
                   force, lastNotificationSent, buf, tickInFlight, startupRuns,
                   log, pureVars>>

(* err = fetchImage(): buf.Reset(), then the response body is copied into  *)
(* buf; a failed Get leaves buf empty, a failed copy leaves what was read. *)
FetchImage(p) ==
    /\ Alive
    /\ pc[p] = "fetch"
    /\ \E outcome \in {"ok", "getFailed", "copyFailed"} :
          /\ buf' = IF outcome = "getFailed" THEN EmptyBuf
                    ELSE [by |-> p, cropped |-> FALSE]
          /\ err' = [err EXCEPT ![p] = IF outcome = "ok" THEN "nil" ELSE "fetch"]
          /\ Goto(p, IF outcome = "ok" THEN "crop" ELSE "ret")
    /\ UNCHANGED <<config, atCancel, sent, panicked, now, ctxDone, mainPC, callbackRegistered, tickC, rest,
                   force, lastNotificationSent, tickInFlight, startupRuns, log,
                   pureVars>>

CropImageErrIgnored(p) ==
    /\ Alive
    /\ pc[p] = "crop"
    /\ IF isCropSpecified(config.Rect)
       THEN \E ok \in BOOLEAN :
               IF ok /\ buf # EmptyBuf
               THEN /\ buf' = [buf EXCEPT !.cropped = TRUE]
                    /\ err' = [err EXCEPT ![p] = "nil"]
               ELSE /\ buf' = EmptyBuf
                    /\ err' = [err EXCEPT ![p] = "crop"]
       ELSE UNCHANGED <<buf, err>>
    /\ Goto(p, "classify")
    /\ UNCHANGED <<config, atCancel, sent, panicked, now, ctxDone, mainPC, callbackRegistered, tickC, rest,
                   force, lastNotificationSent, tickInFlight, startupRuns, log,
                   pureVars>>

(* if config.Image.isCropSpecified() { err = cropImage(r) }: the image in  *)
(* buf is decoded, buf is reset and the cropped image encoded into it.     *)
CropImage(p) ==
    /\ Alive
    /\ pc[p] = "crop"
    /\ IF isCropSpecified(config.Rect)
       THEN \E ok \in BOOLEAN :
               IF ok /\ buf # EmptyBuf
               THEN /\ buf' = [buf EXCEPT !.cropped = TRUE]
                    /\ err' = [err EXCEPT ![p] = "nil"]
                    /\ Goto(p, "classify")
               ELSE /\ buf' = EmptyBuf
                    /\ err' = [err EXCEPT ![p] = "crop"]
                    /\ Goto(p, "ret")
       ELSE /\ Goto(p, "classify")
            /\ UNCHANGED <<buf, err>>
    /\ UNCHANGED <<config, atCancel, sent, panicked, now, ctxDone, mainPC, callbackRegistered, tickC, rest,
                   force, lastNotificationSent, tickInFlight, startupRuns, log,
                   pureVars>>

(* resp, err := evaluateImageJSON(token): the classification service       *)
(* answers with a list of results, or the call fails.                      *)
EvaluateImageJSON(p) ==
    /\ Alive
    /\ pc[p] = "classify"
    /\ \/ /\ err' = [err EXCEPT ![p] = "classify"]
          /\ Goto(p, "ret")
          /\ UNCHANGED <<rest, log>>
       \/ \E results \in ResultLists :
             /\ rest' = [rest EXCEPT ![p] = results]
             /\ err' = [err EXCEPT ![p] = "nil"]
             /\ Goto(p, "loop")
             /\ log' = IF InStartup(p)
                       THEN [classified |-> TRUE, results |-> results,
                             forced |-> 0, detected |-> 0]
                       ELSE log
    /\ UNCHANGED <<config, atCancel, sent, panicked, now, ctxDone, mainPC, callbackRegistered, tickC,
                   force, lastNotificationSent, buf, tickInFlight, startupRuns,
                   pureVars>>

(* for _, p := range resp.Payload: the two tests of one iteration, or the  *)
(* end of the loop.                                                        *)
LoopStep(p) ==
    /\ Alive
    /\ pc[p] = "loop"
    /\ sent' = [sent EXCEPT ![p] = NoSend]
    /\ IF rest[p] = <<>>
       THEN /\ Goto(p, "ret")
            /\ UNCHANGED <<rest, log>>
       ELSE LET d == Decision(Matched(Head(rest[p])),
                              MuteExpired(now, lastNotificationSent,
                                          config.NotifyMuteMinutes),
                              force[p])
            IN  CASE d = "Detected" ->
                       /\ Goto(p, "set")
                       /\ UNCHANGED <<rest, log>>
                  [] d = "ForcedStartup" ->
                       /\ Goto(p, "forced")
                       /\ log' = IF InStartup(p)
                                 THEN [log EXCEPT !.forced = log.forced + 1]
                                 ELSE log
                       /\ UNCHANGED rest
                  [] OTHER ->
                       /\ rest' = [rest EXCEPT ![p] = Tail(rest[p])]
                       /\ UNCHANGED <<pc, log>>
    /\ UNCHANGED <<config, atCancel, err, panicked, now, ctxDone, mainPC, callbackRegistered, tickC,
                   force, lastNotificationSent, buf, tickInFlight, startupRuns,
                   pureVars>>

(* The sends come first; the mute time is not yet assigned. *)
SetLastNotificationSentLater(p) ==
    /\ Alive
    /\ pc[p] = "set"
    /\ Goto(p, "dispatch")
    /\ log' = IF InStartup(p)
              THEN [log EXCEPT !.detected = log.detected + 1] ELSE log
    /\ UNCHANGED <<config, atCancel, sent, err, panicked, now, ctxDone, mainPC, callbackRegistered, tickC, rest,
                   force, lastNotificationSent, buf, tickInFlight, startupRuns, pureVars>>

(* lastNotificationSent = time.Now() *)
SetLastNotificationSent(p) ==
    /\ Alive
    /\ pc[p] = "set"
    /\ lastNotificationSent' = now
    /\ Goto(p, "dispatch")
    /\ log' = IF InStartup(p)
              THEN [log EXCEPT !.detected = log.detected + 1] ELSE log
    /\ UNCHANGED <<config, atCancel, sent, err, panicked, now, ctxDone, mainPC, callbackRegistered, tickC, rest,
                   force, buf, tickInFlight, startupRuns, pureVars>>

(* How one channel ends: not invoked when it is not configured. *)
Outcome(enabled, ok) == IF ~enabled THEN "none" ELSE IF ok THEN "ok" ELSE "failed"

(* The fan-out skips the channels after a failed send. *)
FanOutStopsAtFailure(p, subject) ==
    \E emailOK, pushOK, webHookOK \in BOOLEAN :
        LET email == Outcome(config.EmailServer, emailOK)
            push == IF email = "failed" THEN "none"
                    ELSE Outcome(config.PushKey, pushOK)
            webhook == IF email = "failed" \/ push = "failed" THEN "none"
                       ELSE Outcome(config.WebHookURL, webHookOK)
        IN  /\ sent' = [sent EXCEPT ![p] = [subject |-> subject, email |-> email,
                                            push |-> push, webhook |-> webhook]]
            /\ IF webhook = "failed"
               THEN /\ panicked' = TRUE
                    /\ UNCHANGED <<pc, rest>>
               ELSE /\ rest' = [rest EXCEPT ![p] = Tail(rest[p])]
                    /\ Goto(p, "loop")
                    /\ UNCHANGED panicked

(* The fan-out of one decision: emailResult if an email server is          *)
(* configured, then sendPushNotification if the messaging client exists,   *)
(* then sendWebHook if a URL is configured.  A failed email or push send   *)
(* is logged; a failed webhook POST panics, which ends the process.        *)
FanOut(p, subject) ==
    \E emailOK, pushOK, webHookOK \in BOOLEAN :
        LET email == Outcome(config.EmailServer, emailOK)
            push == Outcome(config.PushKey, pushOK)
            webhook == Outcome(config.WebHookURL, webHookOK)
        IN  /\ sent' = [sent EXCEPT ![p] = [subject |-> subject, email |-> email,
                                            push |-> push, webhook |-> webhook]]
            /\ IF webhook = "failed"
               THEN /\ panicked' = TRUE
                    /\ UNCHANGED <<pc, rest>>
               ELSE /\ rest' = [rest EXCEPT ![p] = Tail(rest[p])]
                    /\ Goto(p, "loop")
                    /\ UNCHANGED panicked

(* The mute time is taken back when no send of the decision succeeded. *)
DispatchDetectedRollback(p) ==
    /\ Alive
    /\ pc[p] = "dispatch"
    /\ FanOut(p, "Detected")
    /\ lastNotificationSent' =
          IF "ok" \in {sent'[p].email, sent'[p].push, sent'[p].webhook}
          THEN lastNotificationSent ELSE 0
    /\ UNCHANGED <<config, atCancel, now, ctxDone, mainPC, callbackRegistered, tickC, force,
                   err, buf, tickInFlight, startupRuns, log, pureVars>>

(* "Package Received!" *)
DispatchDetected(p) ==
    /\ Alive
    /\ pc[p] = "dispatch"
    /\ FanOut(p, "Detected")
    /\ UNCHANGED <<config, atCancel, now, ctxDone, mainPC, callbackRegistered, tickC, force,
                   err, lastNotificationSent, buf, tickInFlight, startupRuns, log,
                   pureVars>>

(* The restart message goes out by email only. *)
DispatchForcedEmailOnly(p) ==
    /\ Alive
    /\ pc[p] = "forced"
    /\ \E emailOK \in BOOLEAN :
          sent' = [sent EXCEPT ![p] = [subject |-> "ForcedStartup",
                                      email |-> Outcome(config.EmailServer, emailOK),
                                      push |-> "none", webhook |-> "none"]]
    /\ rest' = [rest EXCEPT ![p] = Tail(rest[p])]
    /\ Goto(p, "loop")
    /\ UNCHANGED <<config, atCancel, panicked, now, ctxDone, mainPC, callbackRegistered, tickC,
                   force, err, lastNotificationSent, buf, tickInFlight, startupRuns,
                   log, pureVars>>

(* The restart message starts the mute window as well. *)
DispatchForcedSetsMute(p) ==
    /\ Alive
    /\ pc[p] = "forced"
    /\ FanOut(p, "ForcedStartup")
    /\ lastNotificationSent' = now
    /\ UNCHANGED <<config, atCancel, now, ctxDone, mainPC, callbackRegistered, tickC, force,
                   err, buf, tickInFlight, startupRuns, log, pureVars>>

(* "Package Monitor Restarted." *)
DispatchForced(p) ==
    /\ Alive
    /\ pc[p] = "forced"
    /\ FanOut(p, "ForcedStartup")
    /\ UNCHANGED <<config, atCancel, now, ctxDone, mainPC, callbackRegistered, tickC, force,
                   err, lastNotificationSent, buf, tickInFlight, startupRuns, log,
                   pureVars>>

ReturnFatalOnError(p) ==
    /\ Alive
    /\ pc[p] = "ret"
    /\ Goto(p, "idle")
    /\ rest' = [rest EXCEPT ![p] = <<>>]
    /\ force' = [force EXCEPT ![p] = FALSE]
    /\ mainPC' = IF err[p] # "nil" THEN "exited"
                 ELSE IF InStartup(p) THEN "motionInit" ELSE mainPC
    /\ log' = IF InStartup(p) THEN NoLog ELSE log
    /\ atCancel' = atCancel \ {p}
    /\ UNCHANGED <<config, sent, err, panicked, now, ctxDone, callbackRegistered, tickC,
                   lastNotificationSent, buf, tickInFlight, startupRuns,
                   pureVars>>

(* processImage returns to its caller: main goes on to Motion.initialize   *)
(* after the startup cycle, the run loop goes back to its select, the      *)
(* callback returns to the motion library.                                 *)
Return(p) ==
    /\ Alive
    /\ pc[p] = "ret"
    /\ Goto(p, "idle")
    /\ rest' = [rest EXCEPT ![p] = <<>>]
    /\ force' = [force EXCEPT ![p] = FALSE]
    /\ mainPC' = IF InStartup(p) THEN "motionInit" ELSE mainPC
    /\ log' = IF InStartup(p) THEN NoLog ELSE log
    /\ atCancel' = atCancel \ {p}
    /\ UNCHANGED <<config, sent, err, panicked, now, ctxDone, callbackRegistered, tickC,
                   lastNotificationSent, buf, tickInFlight, startupRuns,
                   pureVars>>

ProcessImageStep(p) ==
    \/ GetGoogleToken(p)
    \/ FetchImage(p)
    \/ CropImage(p)
    \/ EvaluateImageJSON(p)
    \/ LoopStep(p)
    \/ SetLastNotificationSent(p)
    \/ DispatchDetected(p)
    \/ DispatchForced(p)
    \/ Return(p)

Next ==
    \/ Initialize
    \/ StartupCycle
    \/ MotionInitialize
    \/ RunEnter
    \/ RunTick
    \/ RunDone
    \/ Cancel
    \/ MotionStopped
    \/ Advance
    \/ \E p \in Procs : ProcessImageStep(p)

Spec == Init /\ [][Next]_vars

(* Scheduling: the main goroutine keeps running, every external call of a  *)
(* cycle returns, and the select of the run loop, which chooses at random  *)
(* among its ready cases, does not pass over a ready ctx.Done() forever.   *)
Fairness ==
    /\ WF_vars(Initialize)
    /\ WF_vars(StartupCycle)
    /\ WF_vars(MotionInitialize)
    /\ WF_vars(RunEnter)
    /\ \A p \in Procs : WF_vars(ProcessImageStep(p))
    /\ SF_vars(RunDone)

(* The configurations in which the ticker and the motion callback are not  *)
(* both on, and the ones that end in a fatal error.  The two goroutines share no lock, so the callback goroutine   *)
(* cannot hold up main.                                                    *)
LiveConfigs ==
    {c \in Configs : c.Interval <= 0 \/ ~c.MotionLogPath \/ c.Fault # "none"}

InitLive == Init /\ config \in LiveConfigs

SpecLive == InitLive /\ [][Next]_vars /\ Fairness

----------------------------------------------------------------------------
(* The pure functions applied to inputs drawn from their domains *)

Hours == 0 .. 23
Labels == {"package", "cat"}
Thresholds == 0 .. 100
ScoresAround(threshold) ==
    {s \in {0, threshold * 100 - 1, threshold * 100, threshold * 100 + 1, 10000} :
        s >= 0 /\ s <= 10000}

AwakeInputs ==
    [fn : {"isAwake"}, sleepHour : Hours, wakeHour : Hours, hour : Hours]

MatchInputs ==
    UNION { [fn : {"IsMatched"}, label : Labels, score : ScoresAround(th),
             packageLabel : Labels, threshold : {th}] : th \in Thresholds }

(* Rectangle coordinates are ints of the configuration file: negative,    *)
(* zero and positive values.                                              *)
Coordinates == {-600, -1, 0, 1, 600}

CropInputs ==
    [fn : {"isCropSpecified"},
     rect : [X1 : Coordinates, Y1 : Coordinates, X2 : Coordinates, Y2 : Coordinates]]

(* The loop of processImage over resp.Payload as a function: results is    *)
(* the payload, clock the readings of time.Now(), one per iteration, last  *)
(* the value of lastNotificationSent on entry.  It yields the number of    *)
(* Detected and of ForcedStartup notifications and the final               *)
(* lastNotificationSent.                                                   *)
RECURSIVE RangeResults(_, _, _, _)
RangeResults(results, clock, last, forceNotify) ==
    IF results = <<>>
    THEN [detected |-> 0, forced |-> 0, last |-> last]
    ELSE LET d == Decision(Matched(Head(results)),
                           MuteExpired(Head(clock), last, config.NotifyMuteMinutes),
                           forceNotify)
             after == RangeResults(Tail(results), Tail(clock),
                                   IF d = "Detected" THEN Head(clock) ELSE last,
                                   forceNotify)
         IN  [detected |-> after.detected + (IF d = "Detected" THEN 1 ELSE 0),
              forced |-> after.forced + (IF d = "ForcedStartup" THEN 1 ELSE 0),
              last |-> after.last]

(* How often result kind k occurs in list s. *)
Occurrences(s, k) == Cardinality({i \in 1 .. Len(s) : s[i] = k})

IsPermutation(s, t) ==
    /\ Len(s) = Len(t)
    /\ \A k \in ResultKinds : Occurrences(s, k) = Occurrences(t, k)

(* Clock readings: the times the clock of the program takes. *)
ClockValues == {StartTime + k * AdvanceStep : k \in 0 .. MaxAdvances}

(* One reading per iteration, never going back. *)
Clocks(n) ==
    {c \in [1 .. n -> ClockValues] : \A i, j \in 1 .. n : i <= j => c[i] <= c[j]}

RangeInputs ==
    UNION { [fn : {"RangeResults"}, results : {s},
             other : {t \in ResultLists : IsPermutation(s, t)},
             clock : Clocks(Len(s)),
             last : {0, StartTime},
             forceNotify : BOOLEAN] : s \in ResultLists }

InitPure ==
    /\ InitProg
    /\ config = BaseConfig
    /\ pin \in AwakeInputs \cup MatchInputs \cup CropInputs \cup RangeInputs
    /\ pout = NoResult

ApplyIsAwake ==
    /\ pin.fn = "isAwake"
    /\ ~pout.done
    /\ pout' = [done |-> TRUE,
                value |-> isAwake(pin.sleepHour, pin.wakeHour, pin.hour)]
    /\ UNCHANGED <<progVars, pin>>

ApplyIsMatched ==
    /\ pin.fn = "IsMatched"
    /\ ~pout.done
    /\ pout' = [done |-> TRUE,
                value |-> IsMatched(pin.label, pin.score, pin.packageLabel,
                                    pin.threshold)]
    /\ UNCHANGED <<progVars, pin>>

ApplyIsCropSpecified ==
    /\ pin.fn = "isCropSpecified"
    /\ ~pout.done
    /\ pout' = [done |-> TRUE, value |-> isCropSpecified(pin.rect)]
    /\ UNCHANGED <<progVars, pin>>

(* The same payload in two orders, with the same clock readings. *)
ApplyRangeResults ==
    /\ pin.fn = "RangeResults"
    /\ ~pout.done
    /\ pout' = [done |-> TRUE,
                value |-> [first |-> RangeResults(pin.results, pin.clock, pin.last,
                                                  pin.forceNotify),
                           second |-> RangeResults(pin.other, pin.clock, pin.last,
                                                   pin.forceNotify)]]
    /\ UNCHANGED <<progVars, pin>>

NextPure ==
    \/ ApplyRangeResults
    \/ ApplyIsAwake
    \/ ApplyIsMatched
    \/ ApplyIsCropSpecified

SpecPure == InitPure /\ [][NextPure]_vars

----------------------------------------------------------------------------
(* Properties *)

Mute == config.NotifyMuteMinutes

(* goroutine p takes a step of processImage *)
Steps(p) == <<pc[p], rest[p]>>' # <<pc[p], rest[p]>>

(* a cycle is started by the ticker loop or by the motion callback *)
TriggeredStart(p) == pc[p] = "idle" /\ pc'[p] = "token" /\ mainPC # "boot"

(* C1: at most one detection cycle (processImage run) is executing at any  *)
(* time.                                                                   *)
C1_AtMostOneCycle == Cardinality({p \in Procs : InFlight(p)}) <= 1

(* C2: no two Detected notifications are decided within the mute window of *)
(* each other: whenever a cycle commits a Detected decision, the previous  *)
(* one (whose time lastNotificationSent holds) is more than                *)
(* NotifyMuteMinutes old, or there was none.                               *)
C2_NoDuplicateDetected ==
    [][\A p \in Procs :
          (pc[p] = "set" /\ pc'[p] = "dispatch")
             => (lastNotificationSent = 0 \/ now > lastNotificationSent + Mute)]_vars

(* C3: a matched result evaluated at time now produces a Detected          *)
(* notification if and only if now > lastNotificationSent + mute (or none  *)
(* was ever sent), otherwise it produces nothing; and producing it sets    *)
(* lastNotificationSent to the current time.                               *)
C3_MuteWindow ==
    [][\A p \in Procs :
          /\ (pc[p] = "loop" /\ rest[p] # <<>> /\ Matched(Head(rest[p])) /\ Steps(p))
                => /\ pc'[p] \in {"set", "loop"}
                   /\ (pc'[p] = "set")
                         <=> (lastNotificationSent = 0
                                \/ now > lastNotificationSent + Mute)
          /\ (pc[p] = "set" /\ pc'[p] = "dispatch")
                => lastNotificationSent' = now]_vars

(* a matched result passes the mute check after an earlier notification *)
C3_Witness ==
    \E p \in Procs :
        /\ pc[p] = "set"
        /\ lastNotificationSent # 0
        /\ now > lastNotificationSent + Mute

(* C4: a result is matched if and only if its label equals the package     *)
(* label and score*100 is strictly greater than the threshold.             *)
C4_Matched ==
    (pin.fn = "IsMatched" /\ pout.done)
        => (pout.value <=> (pin.label = pin.packageLabel
                              /\ pin.score > pin.threshold * 100))

(* the package label exactly at the threshold is not matched *)
C4_Witness ==
    /\ pin.fn = "IsMatched"
    /\ pout.done
    /\ pin.label = pin.packageLabel
    /\ pin.score = pin.threshold * 100
    /\ ~pout.value

NoneMatched(results) == \A i \in 1 .. Len(results) : ~Matched(results[i])

(* C5: a cycle run with forceNotify whose classification result list is    *)
(* empty or holds no matched result produces exactly one ForcedStartup     *)
(* decision.                                                               *)
C5_ExactlyOneForced ==
    (mainPC = "startup" /\ pc["main"] = "ret" /\ force["main"]
       /\ log.classified /\ NoneMatched(log.results))
        => log.forced = 1

(* how many results of the startup cycle have been decided *)
Decided ==
    Len(log.results) - Len(rest["main"])
        + (IF pc["main"] \in {"set", "dispatch", "forced"} THEN 1 ELSE 0)

(* C6: a ForcedStartup notification is not subject to the mute window: in  *)
(* a cycle run with forceNotify every non-matched result decided so far    *)
(* has produced one, whatever lastNotificationSent is.                     *)
C6_ForcedIgnoresMute ==
    (mainPC = "startup" /\ force["main"] /\ log.classified)
        => log.forced
              = Cardinality({i \in 1 .. Decided : ~Matched(log.results[i])})

(* a forced notification is being dispatched inside the mute window *)
C6_Witness ==
    /\ pc["main"] = "forced"
    /\ ~Matched(Head(rest["main"]))
    /\ lastNotificationSent # 0
    /\ now <= lastNotificationSent + Mute

(* C7: a trigger that arrives while a cycle is in flight is dropped: a     *)
(* tick that arrived during a cycle never starts one, and a motion         *)
(* callback invoked during a cycle never starts one.                       *)
C7_TriggerInFlightDropped ==
    [][/\ TriggeredStart("main") => ~tickInFlight
       /\ TriggeredStart("motion") => ~InFlight("main")]_vars

(* C8: a cycle started by a timer tick or by the motion callback starts    *)
(* only if isAwake is true for the hour at which the trigger is handled.   *)
C8_TriggersGatedByAwake ==
    [][\A p \in Procs : TriggeredStart(p) => IsAwakeNow]_vars

(* both trigger origins have started a cycle *)
C8_Witness ==
    /\ mainPC = "run"
    /\ pc["main"] = "token"
    /\ pc["motion"] = "token"

(* C9: exactly one startup cycle is run per process start, with            *)
(* forceNotify = NotifyOnStart, awake or asleep; every later cycle runs    *)
(* with forceNotify = false.                                               *)
C9_OneStartupCycle ==
    /\ startupRuns = (IF mainPC \in {"init", "boot"} \/ config.Fault \in EarlyFaults
                      THEN 0 ELSE 1)
    /\ \A p \in Procs :
          InFlight(p) => (force[p] <=> (InStartup(p) /\ config.NotifyOnStart))

(* the startup cycle runs, forced, while the schedule is asleep *)
C9_Witness ==
    /\ mainPC = "startup"
    /\ InFlight("main")
    /\ force["main"]
    /\ ~IsAwakeNow

(* C10: with sleepHour > wakeHour, isAwake is true exactly for the hours   *)
(* with wakeHour <= hour < sleepHour.                                      *)
C10_AwakeNoWrap ==
    (pin.fn = "isAwake" /\ pout.done /\ pin.sleepHour > pin.wakeHour)
        => (pout.value <=> (pin.wakeHour <= pin.hour /\ pin.hour < pin.sleepHour))

(* sleep 22, wake 7: asleep at 22 *)
C10_Witness ==
    /\ pin.fn = "isAwake"
    /\ pout.done
    /\ pin.sleepHour = 22
    /\ pin.wakeHour = 7
    /\ pin.hour = 22
    /\ ~pout.value

(* C11: with sleepHour < wakeHour the sleep interval wraps past midnight:   *)
(* isAwake is true exactly for hour < sleepHour or hour >= wakeHour.        *)
C11_AwakeWrap ==
    (pin.fn = "isAwake" /\ pout.done /\ pin.sleepHour < pin.wakeHour)
        => (pout.value <=> (pin.hour < pin.sleepHour \/ pin.hour >= pin.wakeHour))

(* sleep 6, wake 22: awake at 5 and at 22, asleep at 6 and at 21 *)
C11_Witness ==
    /\ pin.fn = "isAwake" /\ pout.done
    /\ pin.sleepHour = 6 /\ pin.wakeHour = 22
    /\ \/ pin.hour = 22 /\ pout.value
       \/ pin.hour = 5 /\ pout.value
       \/ pin.hour = 6 /\ ~pout.value
       \/ pin.hour = 21 /\ ~pout.value

(* C12: with sleepHour = wakeHour there is no sleep interval: isAwake is    *)
(* true at every hour, whatever the shared value.                           *)
C12_AwakeAlways ==
    (pin.fn = "isAwake" /\ pout.done /\ pin.sleepHour = pin.wakeHour) => pout.value

C12_Witness ==
    /\ pin.fn = "isAwake" /\ pout.done
    /\ pin.sleepHour = pin.wakeHour /\ pin.sleepHour = 23 /\ pin.hour = 0
    /\ pout.value

(* The steps of processImage before the loop over the results. *)
PipelineSteps == {"token", "fetch", "crop", "classify"}

(* Goroutine p leaves a pipeline step with an error. *)
Aborts(p) == pc[p] \in PipelineSteps /\ pc'[p] # pc[p] /\ err'[p] # "nil"

(* C13: the pipeline runs credential, fetch, crop, classify in this order;  *)
(* a step that fails sends the cycle straight to its return: no later step  *)
(* runs, no result is evaluated, nothing is dispatched, and                 *)
(* lastNotificationSent is left as it was.                                  *)
C13_AbortSkipsRest ==
    [][\A p \in Procs :
          /\ (pc[p] = "token" /\ pc'[p] # pc[p]) => pc'[p] \in {"fetch", "ret"}
          /\ (pc[p] = "fetch" /\ pc'[p] # pc[p]) => pc'[p] \in {"crop", "ret"}
          /\ (pc[p] = "crop" /\ pc'[p] # pc[p]) => pc'[p] \in {"classify", "ret"}
          /\ (pc[p] = "classify" /\ pc'[p] # pc[p]) => pc'[p] \in {"loop", "ret"}
          /\ Aborts(p) => /\ pc'[p] = "ret"
                          /\ rest'[p] = <<>>
                          /\ lastNotificationSent' = lastNotificationSent
                          /\ panicked' = panicked
          /\ (pc[p] = "ret" /\ pc'[p] # pc[p])
                 => /\ pc'[p] = "idle"
                    /\ lastNotificationSent' = lastNotificationSent]_vars

(* a crop failure aborted a cycle that found the mute time already set *)
C13_Witness ==
    \E p \in Procs :
        /\ pc[p] = "ret" /\ err[p] = "crop"
        /\ rest[p] = <<>>
        /\ lastNotificationSent # 0

(* The latest processImage call of goroutine p returned with an error. *)
AfterAbort(p) == pc[p] = "idle" /\ err[p] # "nil"

TickStartsCycle == RunTick /\ pc'["main"] = "token"

MotionStartsCycle == MotionStopped /\ pc'["motion"] = "token"

(* C14: an aborted cycle does not stop the control loop.  Its return leaves *)
(* the process alive, main where it was (or on its way to the run loop      *)
(* after the startup cycle), the callback registered and the pending tick   *)
(* in place; and afterwards, while awake and not cancelled, a pending tick  *)
(* or a motion callback can start a new cycle.                              *)
C14_AbortKeepsLoop ==
    /\ [][\A p \in Procs :
             (pc[p] = "ret" /\ err[p] # "nil" /\ pc'[p] = "idle")
                => /\ Alive'
                   /\ mainPC' = (IF InStartup(p) THEN "motionInit" ELSE mainPC)
                   /\ callbackRegistered' = callbackRegistered
                   /\ tickC' = tickC]_vars
    /\ [](/\ (/\ AfterAbort("main") /\ Alive /\ ~ctxDone /\ IsAwakeNow
              /\ mainPC = "run" /\ tickC = 1) => ENABLED TickStartsCycle
          /\ (/\ AfterAbort("motion") /\ Alive /\ ~ctxDone /\ IsAwakeNow
              /\ callbackRegistered) => ENABLED MotionStartsCycle)

(* a new cycle was started after an aborted one, without cancellation *)
C14_Witness ==
    \E p \in Procs :
        /\ pc[p] = "token" /\ err[p] # "nil"
        /\ mainPC = "run" /\ ~ctxDone

Channels == {"email", "push", "webhook"}

(* Whether the configuration enables a channel. *)
Enabled(c) ==
    CASE c = "email" -> config.EmailServer
      [] c = "push" -> config.PushKey
      [] c = "webhook" -> config.WebHookURL

(* How the send on channel c ended in fan-out record s. *)
SentOn(s, c) ==
    CASE c = "email" -> s.email
      [] c = "push" -> s.push
      [] c = "webhook" -> s.webhook

(* Goroutine p performs the fan-out of a decision in this step. *)
FansOut(p) == pc[p] \in {"dispatch", "forced"} /\ sent'[p] # NoSend

(* C15: within one decision a failed send on one channel does not keep any  *)
(* other enabled channel from being attempted.                              *)
C15_ChannelsIndependent ==
    \A p \in Procs : \A c, d \in Channels :
        (sent[p].subject # "none" /\ SentOn(sent[p], c) = "failed" /\ Enabled(d))
            => SentOn(sent[p], d) # "none"

(* the email send failed and the push and the webhook were still sent *)
C15_Witness ==
    \E p \in Procs :
        /\ sent[p].email = "failed"
        /\ sent[p].push = "ok"
        /\ sent[p].webhook = "ok"

(* C16: a failed send on any channel is logged and nothing more: the cycle  *)
(* goes on with the remaining results and the process stays alive.          *)
C16_ChannelFailureSurvives ==
    [][\A p \in Procs :
          (FansOut(p) /\ \E c \in Channels : SentOn(sent'[p], c) = "failed")
             => /\ ~panicked'
                /\ pc'[p] = "loop"
                /\ rest'[p] = Tail(rest[p])]_vars

(* All the sends of fan-out record s failed. *)
AllFailed(s) ==
    /\ \A c \in Channels : SentOn(s, c) \in {"none", "failed"}
    /\ \E c \in Channels : SentOn(s, c) = "failed"

(* C17: a failed dispatch does not take back the mute time: the fan-out of  *)
(* a Detected decision leaves lastNotificationSent at the value the         *)
(* decision gave it, and when all its sends failed a following matched      *)
(* result inside the mute window is passed over without a notification.     *)
C17_NoRollback ==
    [][\A p \in Procs :
          /\ (FansOut(p) /\ pc[p] = "dispatch")
                => /\ lastNotificationSent' = lastNotificationSent
                   /\ lastNotificationSent' # 0
                   /\ lastNotificationSent' <= now
          /\ (/\ pc[p] = "loop" /\ sent[p].subject = "Detected" /\ AllFailed(sent[p])
              /\ rest[p] # <<>> /\ Matched(Head(rest[p]))
              /\ now <= lastNotificationSent + Mute
              /\ Steps(p))
                => /\ pc'[p] = "loop"
                   /\ rest'[p] = Tail(rest[p])
                   /\ lastNotificationSent' = lastNotificationSent]_vars

(* every send of a Detected decision failed; the next result is a match     *)
(* inside the mute window                                                   *)
C17_Witness ==
    \E p \in Procs :
        /\ pc[p] = "loop"
        /\ sent[p].subject = "Detected" /\ AllFailed(sent[p])
        /\ rest[p] # <<>> /\ Matched(Head(rest[p]))
        /\ lastNotificationSent # 0
        /\ now <= lastNotificationSent + Mute

(* C18: a notifying decision, Detected or ForcedStartup, invokes exactly    *)
(* the enabled channels: email iff a server is configured, push iff the     *)
(* messaging client was initialized, webhook iff a URL is configured.       *)
C18_ExactlyEnabledChannels ==
    \A p \in Procs :
        sent[p].subject # "none"
            => \A c \in Channels : (SentOn(sent[p], c) # "none") <=> Enabled(c)

(* a forced-startup fan-out with the email channel off, and a detected one  *)
(* with only the email channel on                                           *)
C18_Witness ==
    \E p \in Procs :
        \/ /\ sent[p].subject = "ForcedStartup"
           /\ ~config.EmailServer
           /\ sent[p].email = "none" /\ sent[p].push # "none" /\ sent[p].webhook # "none"
        \/ /\ sent[p].subject = "Detected"
           /\ ~config.PushKey /\ ~config.WebHookURL
           /\ sent[p].email # "none" /\ sent[p].push = "none" /\ sent[p].webhook = "none"

ZeroRect == [X1 |-> 0, Y1 |-> 0, X2 |-> 0, Y2 |-> 0]

(* C19: the crop step is skipped exactly for the rectangle {0,0,0,0}: any   *)
(* rectangle with a nonzero coordinate, negative or positive, is cropped.   *)
C19_CropIffNonzero ==
    (pin.fn = "isCropSpecified" /\ pout.done)
        => (pout.value <=> pin.rect # ZeroRect)

(* C20: once the context is cancelled no trigger starts a cycle: neither a  *)
(* pending or later timer tick nor a motion callback.                       *)
C20_NoCycleAfterCancel ==
    [][\A p \in Procs : TriggeredStart(p) => ~ctxDone]_vars

(* C21: the process does not exit while a cycle that was in flight when the *)
(* context was cancelled is still in the pipeline, whichever trigger        *)
(* started it.                                                              *)
C21_InFlightCycleCompletes ==
    mainPC = "exited" => atCancel = {}

(* The process is gone: main returned, or a goroutine panicked. *)
Terminated == mainPC \in {"exited", "fatal"} \/ panicked

(* C22: after the cancellation the run loop returns and the process         *)
(* terminates, with a positive interval and with interval 0.                *)
C22_CancelTerminates == ctxDone ~> Terminated

(* main returned after the cancellation, leaving a buffered tick unread *)
C22_Witness ==
    /\ ctxDone /\ mainPC = "exited" /\ ~panicked
    /\ config.Interval > 0 /\ tickC = 1

(* C23: a fatal configuration error ends the process before any capture or *)
(* detection cycle has been run.                                            *)
C23_FatalBeforeAnyCycle ==
    mainPC = "fatal" => startupRuns = 0

(* Goroutine p assigns lastNotificationSent: the Detected decision. *)
SetsMute(p) == pc[p] = "set" /\ pc'[p] = "dispatch"

(* C24: lastNotificationSent is the zero time until the first cycle and is  *)
(* changed only by a Detected decision, which sets it to the current time:  *)
(* a ForcedStartup notification, a non-matched result, a muted match and an *)
(* aborted cycle leave it as it is.                                         *)
C24_MuteFrame ==
    /\ [](mainPC \in {"init", "boot"} => lastNotificationSent = 0)
    /\ [][lastNotificationSent' # lastNotificationSent
             => /\ \E p \in Procs : SetsMute(p)
                /\ lastNotificationSent' = now]_vars
    /\ [][\A p \in Procs :
             (Steps(p) /\ ~SetsMute(p))
                => lastNotificationSent' = lastNotificationSent]_vars

(* a ForcedStartup notification went out and left the mute state unset *)
C24_Witness ==
    \E p \in Procs :
        /\ pc[p] = "loop"
        /\ sent[p].subject = "ForcedStartup"
        /\ lastNotificationSent = 0

(* The steps of a cycle that read buf: the classification request and the   *)
(* cache file, then the push upload and the webhook payload.                *)
ReadsBuf(p) == pc[p] \in {"classify", "dispatch", "forced"}

(* C25: the bytes a cycle reads from buf are the ones that same cycle       *)
(* fetched, cropped if a crop is configured.                                *)
C25_BufferOwned ==
    \A p \in Procs :
        ReadsBuf(p) => buf = [by |-> p, cropped |-> isCropSpecified(config.Rect)]

(* C26: for a matched result that passed the mute test the assignment of    *)
(* lastNotificationSent comes before any send: the goroutine reaches the    *)
(* sends only through the assignment, no channel has been invoked for the   *)
(* result at that point, and the mute time is set for as long as the sends  *)
(* are pending and when they are made.                                      *)
C26_SetBeforeDispatch ==
    /\ [](\A p \in Procs :
            pc[p] = "dispatch" => /\ lastNotificationSent # 0
                                  /\ lastNotificationSent <= now
                                  /\ (sent[p] = NoSend \/ panicked))
    /\ [][\A p \in Procs :
             /\ (pc'[p] = "dispatch" /\ pc[p] # "dispatch")
                   => /\ pc[p] = "set"
                      /\ lastNotificationSent' = now
             /\ (sent'[p].subject = "Detected" /\ sent[p] = NoSend)
                   => /\ pc[p] = "dispatch"
                      /\ lastNotificationSent' = lastNotificationSent]_vars

(* the mute time has just been assigned and no send has been made yet *)
C26_Witness ==
    \E p \in Procs :
        /\ pc[p] = "dispatch"
        /\ sent[p] = NoSend
        /\ lastNotificationSent = now

(* Membership of hour in the circular interval [wakeHour, sleepHour) of the *)
(* 24-hour clock; the whole clock when the two ends coincide.               *)
InCircularInterval(sleepHour, wakeHour, hour) ==
    \/ sleepHour = wakeHour
    \/ (hour - wakeHour) % 24 < (sleepHour - wakeHour) % 24

(* C27: for all sleepHour, wakeHour, hour in 0..23 the three branches of    *)
(* isAwake agree with the circular-interval membership test.                *)
C27_AwakeIsCircularInterval ==
    (pin.fn = "isAwake" /\ pout.done)
        => (pout.value <=> InCircularInterval(pin.sleepHour, pin.wakeHour, pin.hour))

(* an hour after midnight inside an interval that wraps, and the first hour *)
(* of the interval                                                          *)
C27_Witness ==
    /\ pin.fn = "isAwake" /\ pout.done /\ pout.value
    /\ pin.sleepHour < pin.wakeHour
    /\ pin.hour < pin.sleepHour
    /\ (pin.hour - pin.wakeHour) % 24 = 24 + pin.hour - pin.wakeHour
    /\ pin.sleepHour = 6 /\ pin.wakeHour = 22 /\ pin.hour = 3

(* C28: with an interval of zero or less no ticker exists: no tick is ever  *)
(* buffered, after the startup cycle the main goroutine runs no cycle, and  *)
(* every triggered cycle is a motion cycle.  With a positive interval the   *)
(* ticker is armed once main is in run.                                     *)
C28_TimerOnlyWithPositiveInterval ==
    /\ [](config.Interval <= 0
            => /\ tickC = 0
               /\ ~TickerArmed
               /\ (InFlight("main") => mainPC = "startup"))
    /\ []((config.Interval > 0 /\ mainPC = "run") => TickerArmed)
    /\ [][\A p \in Procs :
             (TriggeredStart(p) /\ config.Interval <= 0) => p = "motion"]_vars

(* interval 0: the clock has advanced, no tick is buffered, main waits in   *)
(* run and a motion cycle is in flight                                      *)
C28_Witness ==
    /\ config.Interval = 0
    /\ mainPC = "run" /\ pc["main"] = "idle"
    /\ now > StartTime /\ tickC = 0
    /\ pc["motion"] = "classify"

(* C29: the number of Detected and the number of ForcedStartup              *)
(* notifications of a cycle are the same for every order of the same        *)
(* results, evaluated from the same mute state with the same forceNotify    *)
(* flag.  (The claim says the same of the final mute state, which follows   *)
(* the time of the Detected decision.)                                      *)
C29_OrderInsignificant ==
    (pin.fn = "RangeResults" /\ pout.done)
        => /\ pout.value.first.detected = pout.value.second.detected
           /\ pout.value.first.forced = pout.value.second.forced

(* main has not yet returned from the startup cycle. *)
BeforeRun == mainPC \in {"init", "boot", "startup"}

(* C30: until the startup cycle has returned the motion callback is not     *)
(* registered and no ticker exists, so no motion or timer cycle starts      *)
(* before it or overlaps it; and forceNotify is set in the startup cycle    *)
(* only.                                                                    *)
C30_StartupFirst ==
    /\ BeforeRun => /\ ~callbackRegistered
                    /\ ~TickerArmed /\ tickC = 0
                    /\ ~InFlight("motion")
    /\ (callbackRegistered \/ TickerArmed) => (startupRuns = 1 /\ ~InStartup("main"))
    /\ \A p \in Procs : force[p] => InStartup(p)

(* the startup cycle is sending its forced notification, later than the     *)
(* process started, and nothing else has been set up                        *)
C30_Witness ==
    /\ mainPC = "startup" /\ pc["main"] = "forced" /\ force["main"]
    /\ now > StartTime
    /\ ~callbackRegistered /\ tickC = 0 /\ pc["motion"] = "idle"

(* Goroutine p is about to test a matched result. *)
AtMatched(p) == pc[p] = "loop" /\ rest[p] # <<>> /\ Matched(Head(rest[p]))

(* C31: a matched result never produces a ForcedStartup notification: the   *)
(* result being sent as ForcedStartup is never a matched one, and with      *)
(* forceNotify set a matched result inside the mute window is passed over   *)
(* with no send at all.                                                     *)
C31_MatchedNeverForced ==
    /\ [](\A p \in Procs : pc[p] = "forced" => ~Matched(Head(rest[p])))
    /\ [][\A p \in Procs :
             (AtMatched(p) /\ Steps(p))
                => /\ pc'[p] # "forced"
                   /\ (force[p] /\ ~MuteExpired(now, lastNotificationSent, Mute))
                         => /\ pc'[p] = "loop"
                            /\ rest'[p] = Tail(rest[p])
                            /\ sent'[p] = NoSend]_vars

(* the startup cycle, forced, has gone through two matched results: one     *)
(* Detected notification, the second result muted, no ForcedStartup         *)
C31_Witness ==
    /\ InStartup("main") /\ force["main"]
    /\ log.results = <<Pkg, Pkg>>
    /\ rest["main"] = <<>> /\ pc["main"] = "loop"
    /\ log.detected = 1 /\ log.forced = 0
    /\ sent["main"] = NoSend

====
